---- MODULE Spec2Model ----
(***************************************************************************)
(* Model of src/appp.py: a Streamlit script that loads an uploaded table,  *)
(* offers a text-to-numeric conversion, shows descriptive statistics and   *)
(* runs a normality-aware correlation analysis on two chosen columns.      *)
(*                                                                         *)
(* Streamlit executes the whole script from line 1 on every user           *)
(* interaction; st.button(...) is True only in the run its click caused.   *)
(* One action of Spec is therefore one complete run of the script.         *)
(*                                                                         *)
(* Numbers.  Cell values are integers.  A Shapiro-Wilk p-value is a        *)
(* rational num/den.  A correlation coefficient r = sxy / sqrt(sxx*syy) is *)
(* irrational in general, so it is held exactly as its sign and its        *)
(* square n2/d2; every comparison the script makes on it is decided        *)
(* exactly on that form.  NaN is a separate kind and every ordered         *)
(* comparison with it is FALSE, as in IEEE arithmetic.  A floating-point   *)
(* coefficient can differ from the exact one by rounding; the model        *)
(* follows the exact value.                                                *)
(*                                                                         *)
(* Library results that are not computed here: scipy's shapiro is an input *)
(* of the run (a p-value or an exception), and the p-value of the          *)
(* correlation is only recorded as computed or NaN.  Direction and         *)
(* strength are held as the keys of their display texts.                   *)
(*                                                                         *)
(* User inputs of a session (Spec): putting a file into the uploader or    *)
(* removing it, switching the language, changing the conversion            *)
(* multiselect, the descriptive multiselect, the X or the Y selectbox,     *)
(* pressing "Apply conversion" and pressing "Run Association Analysis".    *)
(* Each of them reruns the script.  AnalysisSpec applies the analysis      *)
(* block to every file and selection of a larger set of files.             *)
(***************************************************************************)
EXTENDS Integers, Sequences, FiniteSets

VARIABLES
    uploaded_file,   \* rows of the uploaded file (text fields); <<>> = none
    lang,            \* the language of the last run (line 97)
    df,              \* the DataFrame as the last run left it
    click,           \* what caused the last run: "none", "convert", "analyze"
    outcome,         \* how the last run ended
    shown,           \* the sections the last run rendered
    cols_to_convert, \* the conversion multiselect in the last run (line 131)
    desc,            \* the describe() table of the last run (line 157), by column
    col_x, col_y,    \* the selectbox values of the last run (lines 163-164)
    data,            \* the cleaned pairs (lines 167-170)
    p_x, p_y,        \* safe_shapiro results (lines 190-191)
    sw_calls,        \* the series scipy's shapiro was called on (line 185)
    method, corr, pval, direction, strength,   \* lines 199-219
    line             \* the regression line drawn (lines 239-245)

vars == <<uploaded_file, lang, df, click, outcome, shown, cols_to_convert, desc,
          col_x, col_y, data, p_x, p_y, sw_calls, method, corr, pval,
          direction, strength, line>>

----------------------------------------------------------------------------
(* Bounds of the model *)

MaxRows == 3
MaxSessionRows == 3
MaxCoefDen == 10
MaxPDen == 20

(* Program constants *)

MinRows == 3

----------------------------------------------------------------------------
(* Values *)

ColNames == <<"a", "b">>

Range(s) == {s[i] : i \in DOMAIN s}

\* A cell of a DataFrame: a number, NaN, or a text (a sequence of characters).
Num(n) == [k |-> "num", v |-> n, s |-> <<>>]
NaN == [k |-> "nan", v |-> 0, s |-> <<>>]
Str(t) == [k |-> "str", v |-> 0, s |-> t]

\* The text fields a file row may hold in each column: "1", "2", "x", and in
\* column b also the empty field.
Fields == [a |-> {<<"1">>, <<"2">>, <<"x">>}, b |-> {<<>>, <<"1">>, <<"2">>, <<"x">>}]

FileRows == [a : Fields.a, b : Fields.b]

RECURSIVE SeqsUpTo(_, _)
SeqsUpTo(S, n) ==
    IF n = 0 THEN {<<>>}
    ELSE LET shorter == SeqsUpTo(S, n - 1)
         IN shorter \cup {Append(q, e) : q \in {t \in shorter : Len(t) = n - 1}, e \in S}

Files == SeqsUpTo(FileRows, MaxRows) \ {<<>>}

\* The rows of the files of a session: complete, with b missing, and with a
\* text in both columns.
SessionRows ==
    {[a |-> <<"1">>, b |-> <<"1">>], [a |-> <<"1">>, b |-> <<>>],
     [a |-> <<"x">>, b |-> <<"x">>]}

SessionFiles == SeqsUpTo(SessionRows, MaxSessionRows) \ {<<>>}

\* Rational p-values and exact coefficients.
PNone == [k |-> "none", num |-> 0, den |-> 1]
PNaN == [k |-> "nan", num |-> 0, den |-> 1]
PVal(n, d) == [k |-> "val", num |-> n, den |-> d]

CoefNone == [k |-> "none", sgn |-> 0, n2 |-> 0, d2 |-> 1]
CoefNaN == [k |-> "nan", sgn |-> 0, n2 |-> 0, d2 |-> 1]
Sign(n) == IF n > 0 THEN 1 ELSE IF n < 0 THEN -1 ELSE 0
\* The coefficient n/d (d > 0).
Coef(n, d) == [k |-> "val", sgn |-> Sign(n), n2 |-> n * n, d2 |-> d * d]

NoLine == [drawn |-> FALSE, slope_n |-> 0, slope_d |-> 1, icpt_n |-> 0, icpt_d |-> 1,
           x_min |-> 0, x_max |-> 0]

EmptyFrame == [c \in Range(ColNames) |-> <<>>]

----------------------------------------------------------------------------
(* Helpers on sequences of integers *)

RECURSIVE Sum(_)
Sum(s) == IF s = <<>> THEN 0 ELSE Head(s) + Sum(Tail(s))

Prod(s, t) == [i \in DOMAIN s |-> s[i] * t[i]]

SeqMin(s) == CHOOSE m \in Range(s) : \A e \in Range(s) : m <= e
SeqMax(s) == CHOOSE m \in Range(s) : \A e \in Range(s) : m >= e

----------------------------------------------------------------------------
(* Text to number: what pandas' parser does on the fields of this model     *)
(* (unsigned decimal integers parse; any other non-empty text does not).    *)

Digits == <<"0", "1", "2", "3", "4", "5", "6", "7", "8", "9">>

IsDigit(c) == \E i \in DOMAIN Digits : Digits[i] = c

DigitValue(c) == (CHOOSE i \in DOMAIN Digits : Digits[i] = c) - 1

Parses(t) == t # <<>> /\ \A i \in DOMAIN t : IsDigit(t[i])

RECURSIVE ParseInt(_)
ParseInt(t) ==
    IF t = <<>> THEN 0
    ELSE 10 * ParseInt(SubSeq(t, 1, Len(t) - 1)) + DigitValue(t[Len(t)])

\* pd.to_numeric(value, errors="coerce") on one cell: a number stays, a text
\* that parses becomes its number, anything else becomes NaN.
to_numeric_cell(c) ==
    IF c.k = "num" THEN c
    ELSE IF c.k = "str" /\ Parses(c.s) THEN Num(ParseInt(c.s))
    ELSE NaN

\* pd.to_numeric(series, errors="coerce")
to_numeric(series) == [i \in DOMAIN series |-> to_numeric_cell(series[i])]

----------------------------------------------------------------------------
(* read_data: pandas' column type inference.  A column whose non-empty      *)
(* fields all parse is numeric (empty field = NaN); otherwise it is an      *)
(* object column that keeps each non-empty field as text.                   *)

FileColumn(file, c) == [i \in DOMAIN file |-> file[i][c]]

read_column(fields) ==
    IF \A i \in DOMAIN fields : fields[i] = <<>> \/ Parses(fields[i])
    THEN [i \in DOMAIN fields |->
            IF fields[i] = <<>> THEN NaN ELSE Num(ParseInt(fields[i]))]
    ELSE [i \in DOMAIN fields |->
            IF fields[i] = <<>> THEN NaN ELSE Str(fields[i])]

read_data(file) == [c \in Range(ColNames) |-> read_column(FileColumn(file, c))]

NRows(frame) == Len(frame[ColNames[1]])

\* dtype == "object": the column holds text.
IsObject(series) == \E i \in DOMAIN series : series[i].k = "str"

\* line 129
convert_candidates(frame) == {c \in Range(ColNames) : IsObject(frame[c])}

\* lines 133-134: df[c] = pd.to_numeric(df[c], errors="coerce") for each c
apply_convert(frame, cols) ==
    [c \in Range(ColNames) |-> IF c \in cols THEN to_numeric(frame[c]) ELSE frame[c]]

IsNumericCol(frame, c) == ~IsObject(frame[c])

\* line 139: the numeric columns, in column order
numeric_cols(frame) == SelectSeq(ColNames, LAMBDA c : IsNumericCol(frame, c))

----------------------------------------------------------------------------
(* describe(): count, sum (the mean is sum/count), min and max over the     *)
(* non-missing values of one column; the standard deviation and the         *)
(* quartiles are not modelled.                                              *)

Values(series) ==
    LET present == SelectSeq(series, LAMBDA c : c.k = "num")
    IN [i \in DOMAIN present |-> present[i].v]

describe_column(series) ==
    LET vs == Values(series)
    IN [count |-> Len(vs), sum |-> Sum(vs),
        min |-> IF vs = <<>> THEN NaN ELSE Num(SeqMin(vs)),
        max |-> IF vs = <<>> THEN NaN ELSE Num(SeqMax(vs))]

\* line 157: df[desc_cols].describe()
describe(frame, desc_cols) == [c \in desc_cols |-> describe_column(frame[c])]

----------------------------------------------------------------------------
(* Association analysis, lines 166-272 *)

\* line 167: data = df[[col_x, col_y]].copy().  With col_x = col_y the copy
\* has two columns of the same name, data[col_x] is then a DataFrame and
\* pd.to_numeric (line 168) raises TypeError on it; nothing catches that.
duplicate_selection(x, y) == x = y

\* lines 167-169: the two selected columns, coerced, row by row.  idx is the
\* row's position in df (pandas keeps it as the row's index label).
coerce_pair(frame, x, y) ==
    LET xs == to_numeric(frame[x])
        ys == to_numeric(frame[y])
    IN [i \in 1..NRows(frame) |-> [idx |-> i, x |-> xs[i], y |-> ys[i]]]

\* line 170: data.dropna() keeps the rows without a missing value
dropna(rows) == SelectSeq(rows, LAMBDA r : r.x.k = "num" /\ r.y.k = "num")

clean(frame, x, y) == dropna(coerce_pair(frame, x, y))

XS(rows) == [i \in DOMAIN rows |-> rows[i].x.v]
YS(rows) == [i \in DOMAIN rows |-> rows[i].y.v]

\* line 172: len(data) < 3
too_few(rows) == Len(rows) < MinRows

\* Variant of frame_after_clean without the copy: the rows dropped from data
\* are dropped from df.
in_place_clean(frame, x, y) ==
    LET kept == clean(frame, x, y)
    IN [c \in Range(ColNames) |-> [i \in DOMAIN kept |-> frame[c][kept[i].idx]]]

\* The DataFrame after lines 167-170: they work on a copy, df is untouched.
frame_after_clean(frame, x, y) == frame

\* line 182: np.all(x == x[0])
is_constant(xs) == \A i \in DOMAIN xs : xs[i] = xs[1]

\* scipy's shapiro is not computed here: its outcome sw is an input of the
\* run, either a p-value or an exception (k = "exc").
ShapiroOutcomes == {[k |-> "exc", num |-> 0, den |-> 1], PVal(1, 20), PVal(3, 50)}

\* Variant of safe_shapiro without the constant-series guard of line 182.
safe_shapiro_unguarded(xs, sw) ==
    IF Len(xs) < 3 THEN [p |-> PNaN, called |-> FALSE]
    ELSE IF sw.k = "exc" THEN [p |-> PNaN, called |-> TRUE]
    ELSE [p |-> sw, called |-> TRUE]

\* lines 178-188
safe_shapiro(xs, sw) ==
    IF Len(xs) < 3 THEN [p |-> PNaN, called |-> FALSE]
    ELSE IF is_constant(xs) THEN [p |-> PNaN, called |-> FALSE]
    ELSE IF sw.k = "exc" THEN [p |-> PNaN, called |-> TRUE]
    ELSE [p |-> sw, called |-> TRUE]

isnan(p) == p.k = "nan"

\* p > a/b
PGt(p, a, b) == p.k = "val" /\ p.num * b > a * p.den
PGe(p, a, b) == p.k = "val" /\ p.num * b >= a * p.den

\* Variant of use_pearson with >= 0.05.
use_pearson_ge(px, py) ==
    (~isnan(px)) /\ (~isnan(py)) /\ PGe(px, 5, 100) /\ PGe(py, 5, 100)

\* line 199
use_pearson(px, py) ==
    (~isnan(px)) /\ (~isnan(py)) /\ PGt(px, 5, 100) /\ PGt(py, 5, 100)

\* lines 201-206
select_method(px, py) == IF use_pearson(px, py) THEN "Pearson" ELSE "Spearman"

\* Pearson's r of two integer series, exactly: with n = len,
\* sxy = n*sum(xy) - sum(x)*sum(y), r = sxy / sqrt(sxx * syy); NaN when a
\* series is constant (scipy returns nan with a warning).
pearsonr(xs, ys) ==
    LET n == Len(xs)
        sxy == n * Sum(Prod(xs, ys)) - Sum(xs) * Sum(ys)
        sxx == n * Sum(Prod(xs, xs)) - Sum(xs) * Sum(xs)
        syy == n * Sum(Prod(ys, ys)) - Sum(ys) * Sum(ys)
    IN IF sxx = 0 \/ syy = 0 THEN CoefNaN
       ELSE [k |-> "val", sgn |-> Sign(sxy), n2 |-> sxy * sxy, d2 |-> sxx * syy]

\* Twice the average rank of each value (ties share the mean of their ranks).
rankdata2(xs) ==
    [i \in DOMAIN xs |->
        2 * Cardinality({j \in DOMAIN xs : xs[j] < xs[i]})
        + Cardinality({j \in DOMAIN xs : xs[j] = xs[i]}) + 1]

\* Spearman's rho: Pearson's r of the ranks.
spearmanr(xs, ys) == pearsonr(rankdata2(xs), rankdata2(ys))

\* Variant of Direction with corr >= 0.
direction_ge(c) == IF c.k = "val" /\ c.sgn >= 0 THEN "positive" ELSE "negative"

\* line 208
Direction(c) == IF c.k = "val" /\ c.sgn > 0 THEN "positive" ELSE "negative"

\* abs(corr) < a/b, FALSE for NaN
AbsLt(c, a, b) == c.k = "val" /\ c.n2 * (b * b) < (a * a) * c.d2
AbsLe(c, a, b) == c.k = "val" /\ c.n2 * (b * b) <= (a * a) * c.d2
AbsGe(c, a, b) == c.k = "val" /\ c.n2 * (b * b) >= (a * a) * c.d2

\* Variant of Strength with <= at each threshold.
strength_le(c) ==
    IF AbsLe(c, 3, 10) THEN "very_weak"
    ELSE IF AbsLe(c, 5, 10) THEN "weak"
    ELSE IF AbsLe(c, 7, 10) THEN "moderate"
    ELSE "strong"

\* Variant of Strength that tests the bins from the strongest down.
strength_from_top(c) ==
    IF AbsGe(c, 7, 10) THEN "strong"
    ELSE IF AbsGe(c, 5, 10) THEN "moderate"
    ELSE IF AbsGe(c, 3, 10) THEN "weak"
    ELSE "very_weak"

\* lines 211-219
Strength(c) ==
    IF AbsLt(c, 3, 10) THEN "very_weak"
    ELSE IF AbsLt(c, 5, 10) THEN "weak"
    ELSE IF AbsLt(c, 7, 10) THEN "moderate"
    ELSE "strong"

\* scipy's linregress raises ValueError when all x values are identical;
\* otherwise slope = sxy/sxx and intercept = mean(y) - slope*mean(x).
linregress_raises(xs) == is_constant(xs)

linregress(xs, ys) ==
    LET n == Len(xs)
        sxy == n * Sum(Prod(xs, ys)) - Sum(xs) * Sum(ys)
        sxx == n * Sum(Prod(xs, xs)) - Sum(xs) * Sum(xs)
    IN [drawn |-> TRUE, slope_n |-> sxy, slope_d |-> sxx,
        icpt_n |-> Sum(ys) * sxx - sxy * Sum(xs), icpt_d |-> n * sxx,
        x_min |-> SeqMin(xs), x_max |-> SeqMax(xs)]

\* Variant of regression without the try/except.
regression_uncaught(rows) ==
    IF linregress_raises(XS(rows)) THEN [raised |-> TRUE, line |-> NoLine]
    ELSE [raised |-> FALSE, line |-> linregress(XS(rows), YS(rows))]

\* lines 239-245: try: linregress, plot  except Exception: pass
regression(rows) ==
    IF linregress_raises(XS(rows)) THEN [raised |-> FALSE, line |-> NoLine]
    ELSE [raised |-> FALSE, line |-> linregress(XS(rows), YS(rows))]

\* lines 203 and 206: the coefficient of the method chosen
correlation(m, rows) ==
    IF m = "Pearson" THEN pearsonr(XS(rows), YS(rows))
    ELSE spearmanr(XS(rows), YS(rows))

\* lines 203 and 206: the p-value that comes with the coefficient c, held as
\* computed or NaN
p_value(c) == IF c.k = "nan" THEN "nan" ELSE "value"

\* What the analysis block leaves when it is not entered.
NoAnalysis ==
    [outcome |-> "end", sections |-> {}, data |-> <<>>, p_x |-> PNone, p_y |-> PNone,
     sw_calls |-> {}, method |-> "", corr |-> CoefNone, pval |-> "none",
     direction |-> "", strength |-> "", line |-> NoLine]

\* Lines 167-272 for the selection (x, y); swx and swy are what scipy's
\* shapiro gives on the x-series and on the y-series if it is called.
Analysis(frame, x, y, swx, swy) ==
    IF duplicate_selection(x, y)
    THEN [NoAnalysis EXCEPT !.outcome = "exception"]
    ELSE
      LET rows == clean(frame, x, y)
      IN IF too_few(rows)
         THEN [NoAnalysis EXCEPT !.outcome = "stop_error_pairs",
                                 !.sections = {"error_pairs"}, !.data = rows]
         ELSE
           LET sx == safe_shapiro(XS(rows), swx)
               sy == safe_shapiro(YS(rows), swy)
               m == select_method(sx.p, sy.p)
               c == correlation(m, rows)
               reg == regression(rows)
           IN [outcome |-> IF reg.raised THEN "exception" ELSE "analyzed",
               sections |-> {"normality", "result"}
                            \cup (IF reg.raised THEN {} ELSE {"scatter", "analysis_desc"}),
               data |-> rows,
               p_x |-> sx.p, p_y |-> sy.p,
               sw_calls |-> (IF sx.called THEN {"x"} ELSE {})
                            \cup (IF sy.called THEN {"y"} ELSE {}),
               method |-> m,
               corr |-> c,
               pval |-> p_value(c),
               direction |-> Direction(c),
               strength |-> Strength(c),
               line |-> reg.line]

----------------------------------------------------------------------------
(* One run of the script, lines 96-275 *)

\* Line 99: the options of the language radio; the first is its default.
Languages == <<"id", "en">>

\* Lines 150-154 and 163-164: the widget defaults.
default_widgets(ncols) ==
    IF ncols = <<>> THEN [dsc |-> {}, x |-> "", y |-> ""]
    ELSE [dsc |-> Range(ncols), x |-> ncols[1],
          y |-> IF Len(ncols) > 1 THEN ncols[2] ELSE ncols[1]]

\* A widget keeps the user's value from the previous run when it was
\* rendered there with the same label (the label is T[...], so the same
\* language) and the same options; otherwise it shows its default.
widgets_kept(ncols, lng) ==
    "analyze_btn" \in shown /\ lang = lng /\ numeric_cols(df) = ncols

kept_widgets(ncols, lng) ==
    IF widgets_kept(ncols, lng) THEN [dsc |-> DOMAIN desc, x |-> col_x, y |-> col_y]
    ELSE default_widgets(ncols)

\* Line 131: the conversion multiselect, with options cands, under the same
\* rule; its default is the empty selection.
kept_convert(cands, lng) ==
    IF /\ "convert_tool" \in shown
       /\ lang = lng
       /\ convert_candidates(read_data(uploaded_file)) = cands
    THEN cols_to_convert
    ELSE {}

\* The outcomes of the analysis block over what scipy's shapiro may give.
AnalysisOutcomes(frame, x, y) ==
    {Analysis(frame, x, y, swx, swy) : swx \in ShapiroOutcomes, swy \in ShapiroOutcomes}

\* A run without a file: line 275, st.info.
InfoRun(lng) ==
    [uploaded_file |-> << >>, lang |-> lng, df |-> EmptyFrame, click |-> "none",
     outcome |-> "info", shown |-> {"info"}, cols_to_convert |-> {}, desc |-> << >>,
     col_x |-> "", col_y |-> "",
     data |-> NoAnalysis.data, p_x |-> NoAnalysis.p_x, p_y |-> NoAnalysis.p_y,
     sw_calls |-> NoAnalysis.sw_calls, method |-> NoAnalysis.method,
     corr |-> NoAnalysis.corr, pval |-> NoAnalysis.pval,
     direction |-> NoAnalysis.direction, strength |-> NoAnalysis.strength,
     line |-> NoAnalysis.line]

\* The run on the uploaded file in language lng caused by btn: cvt is the
\* value of the conversion multiselect, w the values of the other widgets,
\* and r the outcome of the analysis block when the run reaches it.
RunScript(file, lng, btn, cvt, w, r) ==
    LET df0 == read_data(file)
        df1 == IF btn = "convert" THEN apply_convert(df0, cvt) ELSE df0
        ncols == numeric_cols(df1)
        top == {"preview"}
               \cup (IF convert_candidates(df0) # {} THEN {"convert_tool"} ELSE {})
               \cup (IF btn = "convert" THEN {"converted"} ELSE {})
        entered == btn = "analyze" /\ ~duplicate_selection(w.x, w.y)
        run == [InfoRun(lng) EXCEPT !.uploaded_file = file, !.click = btn,
                                    !.cols_to_convert = cvt]
    IN IF ncols = <<>>
       THEN \* lines 141-143: st.warning, st.stop()
            [run EXCEPT !.df = df1,
                        !.outcome = "stop_no_numeric",
                        !.shown = top \cup {"warn_no_numeric"}]
       ELSE [run EXCEPT !.df = IF entered THEN frame_after_clean(df1, w.x, w.y) ELSE df1,
                        !.outcome = r.outcome,
                        !.shown = top \cup {"desc_stat", "analyze_btn"}
                                      \cup (IF w.dsc # {} THEN {"desc_table"} ELSE {})
                                      \cup r.sections,
                        !.desc = describe(df1, w.dsc),
                        !.col_x = w.x, !.col_y = w.y,
                        !.data = r.data, !.p_x = r.p_x, !.p_y = r.p_y,
                        !.sw_calls = r.sw_calls, !.method = r.method,
                        !.corr = r.corr, !.pval = r.pval,
                        !.direction = r.direction, !.strength = r.strength,
                        !.line = r.line]

\* The program is in the state the run st left.
StateIs(st) ==
    /\ uploaded_file = st.uploaded_file
    /\ lang = st.lang
    /\ df = st.df
    /\ click = st.click
    /\ outcome = st.outcome
    /\ shown = st.shown
    /\ cols_to_convert = st.cols_to_convert
    /\ desc = st.desc
    /\ col_x = st.col_x /\ col_y = st.col_y
    /\ data = st.data
    /\ p_x = st.p_x /\ p_y = st.p_y
    /\ sw_calls = st.sw_calls
    /\ method = st.method /\ corr = st.corr
    /\ pval = st.pval
    /\ direction = st.direction
    /\ strength = st.strength
    /\ line = st.line

\* The script reruns and leaves the state of the run.
Rerun(run) ==
    \E st \in {run} :
    /\ uploaded_file' = st.uploaded_file
    /\ lang' = st.lang
    /\ df' = st.df
    /\ click' = st.click
    /\ outcome' = st.outcome
    /\ shown' = st.shown
    /\ cols_to_convert' = st.cols_to_convert
    /\ desc' = st.desc
    /\ col_x' = st.col_x /\ col_y' = st.col_y
    /\ data' = st.data
    /\ p_x' = st.p_x /\ p_y' = st.p_y
    /\ sw_calls' = st.sw_calls
    /\ method' = st.method /\ corr' = st.corr
    /\ pval' = st.pval
    /\ direction' = st.direction
    /\ strength' = st.strength
    /\ line' = st.line

\* Before any upload, in the default language.
Init == StateIs(InfoRun(Languages[1]))

\* The user puts a file into the uploader (line 113), the first or in place
\* of the one there.
Upload ==
    \E file \in SessionFiles :
    \E df0 \in {read_data(file)} :
      /\ file # << >>
      /\ Rerun(RunScript(file, lang, "none", kept_convert(convert_candidates(df0), lang),
                         kept_widgets(numeric_cols(df0), lang), NoAnalysis))

\* The user removes the file from the uploader (line 113).
RemoveFile ==
    /\ uploaded_file # << >>
    /\ Rerun(InfoRun(lang))

\* The user picks the other language (lines 97-102).  Every label is T[...],
\* so every widget below is a new one.  That holds for the uploader as well
\* (its label is T["upload"]): the rerun finds it empty, or, where the
\* uploader keeps its file, runs on the file with all widgets at defaults.
SwitchLanguage ==
    \E lng \in Range(Languages) \ {lang} :
      \/ Rerun(InfoRun(lng))
      \/ /\ uploaded_file # << >>
         /\ Rerun(RunScript(uploaded_file, lng, "none", {},
                            default_widgets(numeric_cols(read_data(uploaded_file))),
                            NoAnalysis))

\* The user changes the conversion multiselect (line 131).
SelectConvertCols ==
    /\ "convert_tool" \in shown
    /\ \E df0 \in {read_data(uploaded_file)} :
       \E cvt \in SUBSET convert_candidates(df0) :
         Rerun(RunScript(uploaded_file, lang, "none", cvt,
                         kept_widgets(numeric_cols(df0), lang), NoAnalysis))

\* The user changes the descriptive multiselect among the options shown
\* (line 150).
SelectDesc ==
    /\ "analyze_btn" \in shown
    /\ \E dsc \in SUBSET Range(numeric_cols(df)) :
       \E df0 \in {read_data(uploaded_file)} :
       \E ncols \in {numeric_cols(df0)} :
         Rerun(RunScript(uploaded_file, lang, "none",
                         kept_convert(convert_candidates(df0), lang),
                         IF widgets_kept(ncols, lang)
                         THEN [kept_widgets(ncols, lang) EXCEPT !.dsc = dsc]
                         ELSE default_widgets(ncols),
                         NoAnalysis))

\* The user picks variable X among the options shown (line 163).
SelectX ==
    /\ "analyze_btn" \in shown
    /\ \E x \in Range(numeric_cols(df)) :
       \E df0 \in {read_data(uploaded_file)} :
       \E ncols \in {numeric_cols(df0)} :
         Rerun(RunScript(uploaded_file, lang, "none",
                         kept_convert(convert_candidates(df0), lang),
                         IF widgets_kept(ncols, lang)
                         THEN [kept_widgets(ncols, lang) EXCEPT !.x = x]
                         ELSE default_widgets(ncols),
                         NoAnalysis))

\* The user picks variable Y among the options shown (line 164).
SelectY ==
    /\ "analyze_btn" \in shown
    /\ \E y \in Range(numeric_cols(df)) :
       \E df0 \in {read_data(uploaded_file)} :
       \E ncols \in {numeric_cols(df0)} :
         Rerun(RunScript(uploaded_file, lang, "none",
                         kept_convert(convert_candidates(df0), lang),
                         IF widgets_kept(ncols, lang)
                         THEN [kept_widgets(ncols, lang) EXCEPT !.y = y]
                         ELSE default_widgets(ncols),
                         NoAnalysis))

\* The user presses "Apply conversion" (line 132); the loop of lines 133-134
\* runs over the value of the conversion multiselect.
ClickConvert ==
    /\ "convert_tool" \in shown
    /\ \E df0 \in {read_data(uploaded_file)} :
       \E cvt \in {kept_convert(convert_candidates(df0), lang)} :
         Rerun(RunScript(uploaded_file, lang, "convert", cvt,
                         kept_widgets(numeric_cols(apply_convert(df0, cvt)), lang),
                         NoAnalysis))

\* The user presses "Run Association Analysis" (line 166).
ClickAnalyze ==
    /\ "analyze_btn" \in shown
    /\ \E df0 \in {read_data(uploaded_file)} :
       \E ncols \in {numeric_cols(df0)} :
       \E cvt \in {kept_convert(convert_candidates(df0), lang)} :
       \E w \in {kept_widgets(ncols, lang)} :
         IF ncols = <<>>
         THEN Rerun(RunScript(uploaded_file, lang, "analyze", cvt, w, NoAnalysis))
         ELSE \E r \in AnalysisOutcomes(df0, w.x, w.y) :
                Rerun(RunScript(uploaded_file, lang, "analyze", cvt, w, r))

Next ==
    \/ Upload
    \/ RemoveFile
    \/ SwitchLanguage
    \/ SelectConvertCols
    \/ SelectDesc
    \/ SelectX
    \/ SelectY
    \/ ClickConvert
    \/ ClickAnalyze

Spec == Init /\ [][Next]_vars

----------------------------------------------------------------------------
(* The analysis block as a function of the file and the two selections *)

\* A file with a numeric column has been uploaded and X and Y chosen.
AnalysisInit ==
    \E file \in Files :
    \E ncols \in {numeric_cols(read_data(file))} :
      /\ ncols # <<>>
      /\ \E x \in Range(ncols), y \in Range(ncols) :
           StateIs(RunScript(file, Languages[1], "none", {},
                             [default_widgets(ncols) EXCEPT !.x = x, !.y = y],
                             NoAnalysis))

AnalysisSpec == AnalysisInit /\ [][ClickAnalyze]_vars

----------------------------------------------------------------------------
(* The method rule and the classification as functions of their inputs *)

PInputs == {PNaN} \cup UNION {{PVal(n, d) : n \in 0..d} : d \in 1..MaxPDen}

CoefInputs == {CoefNaN} \cup UNION {{Coef(n, d) : n \in -d..d} : d \in 1..MaxCoefDen}

InitExcept(rows, px, py, c) ==
    StateIs([InfoRun(Languages[1]) EXCEPT !.outcome = "input", !.shown = {},
                                          !.data = rows,
                                          !.p_x = px, !.p_y = py, !.corr = c])

\* The cleaned pairs the method rule is applied to: x = 1,2,1 with
\* y = 1,2,2 (r = 1/2), with y = 2,1,2 (r = -1) and with the constant y = 1,1,1.
MethodFiles ==
    {<<[a |-> <<"1">>, b |-> <<"1">>], [a |-> <<"2">>, b |-> <<"2">>],
       [a |-> <<"1">>, b |-> <<"2">>]>>,
     <<[a |-> <<"1">>, b |-> <<"2">>], [a |-> <<"2">>, b |-> <<"1">>],
       [a |-> <<"1">>, b |-> <<"2">>]>>,
     <<[a |-> <<"1">>, b |-> <<"1">>], [a |-> <<"2">>, b |-> <<"1">>],
       [a |-> <<"1">>, b |-> <<"1">>]>>}

MethodData == {clean(read_data(file), "a", "b") : file \in MethodFiles}

\* What safe_shapiro can give on a series: NaN on a constant one (line 183).
NormalityInputs(series) == IF is_constant(series) THEN {PNaN} ELSE PInputs

MethodInit ==
    \E rows \in MethodData :
    \E px \in NormalityInputs(XS(rows)), py \in NormalityInputs(YS(rows)) :
      InitExcept(rows, px, py, CoefNone)

\* lines 199-206 on the pair (p_x, p_y) and the cleaned pairs
SelectMethod ==
    /\ outcome = "input"
    /\ \E m \in {select_method(p_x, p_y)} :
       \E c \in {correlation(m, data)} :
         /\ method' = m
         /\ corr' = c
         /\ pval' = p_value(c)
    /\ outcome' = "selected"
    /\ UNCHANGED <<uploaded_file, lang, df, click, shown, cols_to_convert, desc,
                   col_x, col_y, data, p_x, p_y, sw_calls, direction, strength, line>>

MethodSpec == MethodInit /\ [][SelectMethod]_vars

ClassifyInit == \E c \in CoefInputs : InitExcept(<< >>, PNone, PNone, c)

\* lines 208-219 on the coefficient corr
Classify ==
    /\ outcome = "input"
    /\ direction' = Direction(corr)
    /\ strength' = Strength(corr)
    /\ outcome' = "classified"
    /\ UNCHANGED <<uploaded_file, lang, df, click, shown, cols_to_convert, desc,
                   col_x, col_y, data, p_x, p_y, sw_calls, method, corr, pval, line>>

ClassifySpec == ClassifyInit /\ [][Classify]_vars

----------------------------------------------------------------------------
(* Properties *)

\* The run entered the analysis block (line 166 was True and reached).
AnalysisRun == click = "analyze" /\ "analyze_btn" \in shown

\* A cell that is a number once coerced.
IsNumber(c) == c.k = "num" \/ (c.k = "str" /\ Parses(c.s))

\* The rows of df whose cells in columns x and y are both numbers.
ValidRows(x, y) == {i \in 1..NRows(df) : IsNumber(df[x][i]) /\ IsNumber(df[y][i])}

LaterSections == {"normality", "result", "scatter", "analysis_desc"}

NothingComputed ==
    /\ p_x = PNone /\ p_y = PNone /\ sw_calls = {}
    /\ method = "" /\ corr = CoefNone /\ pval = "none"
    /\ direction = "" /\ strength = "" /\ line = NoLine
    /\ shown \cap LaterSections = {}

\* C1: for every dataset and column pair, when fewer than 3 rows have a
\* number in both selected columns the analysis ends in the insufficient-data
\* failure (st.error, st.stop) and computes or renders nothing later.
C1_InsufficientData ==
    (AnalysisRun /\ Cardinality(ValidRows(col_x, col_y)) < 3)
        => (outcome = "stop_error_pairs" /\ "error_pairs" \in shown /\ NothingComputed)

\* C1 for two different columns: the guard of lines 172-174 stops the run
\* with the insufficient-data message and nothing later is computed.
C1_GuardDistinctColumns ==
    (AnalysisRun /\ col_x # col_y /\ Cardinality(ValidRows(col_x, col_y)) < 3)
        => (outcome = "stop_error_pairs" /\ "error_pairs" \in shown /\ NothingComputed)

C1_GuardWitness ==
    /\ outcome = "stop_error_pairs"
    /\ NRows(df) = 3 /\ Len(data) = 2

\* C2: Pearson is selected iff both normality results are computable and
\* both are strictly greater than 0.05 (1/20); otherwise Spearman.
C2_MethodRule ==
    outcome = "selected" =>
        /\ method \in {"Pearson", "Spearman"}
        /\ method = "Pearson" <=>
              /\ p_x.k = "val" /\ p_y.k = "val"
              /\ 20 * p_x.num > p_x.den
              /\ 20 * p_y.num > p_y.den

C2_Witness ==
    /\ outcome = "selected"
    /\ p_x = PVal(1, 20) /\ p_y = PVal(1, 2)
    /\ method = "Spearman"
    /\ corr.k = "val" /\ pval = "value"

\* C3: in an analysis that passes the 3-row check, a constant x-series or
\* y-series has a normality result that is not computable, shapiro is not
\* called on it, and the method is Spearman.
C3_ConstantSeries ==
    (AnalysisRun /\ Len(data) >= 3) =>
        /\ is_constant(XS(data)) => (p_x = PNaN /\ "x" \notin sw_calls /\ method = "Spearman")
        /\ is_constant(YS(data)) => (p_y = PNaN /\ "y" \notin sw_calls /\ method = "Spearman")

C3_Witness ==
    /\ outcome = "analyzed"
    /\ is_constant(YS(data)) /\ ~is_constant(XS(data))
    /\ p_x = PVal(3, 50) /\ p_y = PNaN
    /\ sw_calls = {"x"}
    /\ method = "Spearman"

\* C4: the strength is decided by |r| alone with lower-inclusive bins:
\* |r| < 0.3 very weak, 0.3 <= |r| < 0.5 weak, 0.5 <= |r| < 0.7 moderate,
\* |r| >= 0.7 strong (stated on r^2 = n2/d2: 0.09, 0.25, 0.49).
C4_StrengthBins ==
    (outcome = "classified" /\ corr.k = "val") =>
        /\ strength = "very_weak" <=> 100 * corr.n2 < 9 * corr.d2
        /\ strength = "weak" <=>
              (9 * corr.d2 <= 100 * corr.n2 /\ 100 * corr.n2 < 25 * corr.d2)
        /\ strength = "moderate" <=>
              (25 * corr.d2 <= 100 * corr.n2 /\ 100 * corr.n2 < 49 * corr.d2)
        /\ strength = "strong" <=> 49 * corr.d2 <= 100 * corr.n2

C4_Witness ==
    /\ outcome = "classified"
    /\ corr = Coef(-3, 10)
    /\ strength = "weak"

\* C5: the direction is positive iff the coefficient is strictly greater
\* than 0; a coefficient of exactly 0, or below 0, is negative.
C5_Direction ==
    outcome = "classified" =>
        /\ direction \in {"positive", "negative"}
        /\ direction = "positive" <=> (corr.k = "val" /\ corr.sgn = 1)
        /\ (corr.k = "val" /\ corr.n2 = 0) => direction = "negative"

C5_Witness ==
    /\ outcome = "classified"
    /\ corr = Coef(0, 1)
    /\ direction = "negative"

\* The cleaned pairs are exactly the rows of the dataset with a number in
\* both selected columns, in row order, each pair taken from one row; their
\* count is the row count minus the rows with a missing x or y.
CleanedPairsAreValidRows ==
    LET n == NRows(df)
        missing == {i \in 1..n : ~IsNumber(df[col_x][i]) \/ ~IsNumber(df[col_y][i])}
    IN /\ Len(data) = n - Cardinality(missing)
       /\ Len(data) <= n
       /\ {data[i].idx : i \in DOMAIN data} = (1..n) \ missing
       /\ \A i \in DOMAIN data : \A j \in DOMAIN data :
             i < j => data[i].idx < data[j].idx
       /\ \A i \in DOMAIN data :
             /\ data[i].x = df[col_x][data[i].idx]
             /\ data[i].y = df[col_y][data[i].idx]

\* C6: for every dataset and column pair, an analysis run produces the
\* cleaned pairs, and they are exactly the rows of the dataset with a number
\* in both selected columns, in row order, each pair taken from one row.
C6_CleanedPair == AnalysisRun => (outcome # "exception" /\ CleanedPairsAreValidRows)

\* C6 for two different columns: lines 167-170 complete and the cleaned
\* pairs are the valid rows.
C6_DistinctColumns ==
    (AnalysisRun /\ col_x # col_y) => (outcome # "exception" /\ CleanedPairsAreValidRows)

C6_Witness ==
    /\ outcome = "stop_error_pairs"
    /\ NRows(df) = 3
    /\ Len(data) = 2
    /\ data[1].idx = 1 /\ data[2].idx = 3

\* C7: in an analysis that passes the 3-row check, a failing regression fit
\* only omits the line: normality, method, coefficient and p-value are
\* reported, the plot is shown and the description is rendered.
C7_RegressionFailure ==
    (AnalysisRun /\ Len(data) >= 3 /\ linregress_raises(XS(data))) =>
        /\ outcome = "analyzed"
        /\ line = NoLine
        /\ LaterSections \subseteq shown
        /\ p_x # PNone /\ p_y # PNone
        /\ method \in {"Pearson", "Spearman"}
        /\ corr # CoefNone /\ pval # "none"
        /\ direction # "" /\ strength # ""

C7_Witness ==
    /\ outcome = "analyzed"
    /\ linregress_raises(XS(data))
    /\ ~line.drawn
    /\ "analysis_desc" \in shown

\* C8: once the user has applied the conversion to a column, the next user
\* action on the same file works on the converted values of that column.
C8_CoercionPersists ==
    [][(click = "convert" /\ uploaded_file' = uploaded_file)
          => \A c \in cols_to_convert : df'[c] = df[c]]_vars

\* C9: a run that is not the conversion leaves the dataset as loaded, whether
\* the analysis succeeds, fails for insufficient data or is not run; only
\* the conversion writes to it.
C9_DatasetUnchanged ==
    uploaded_file # << >> =>
        /\ click # "convert" => df = read_data(uploaded_file)
        /\ df # read_data(uploaded_file) => (click = "convert" /\ cols_to_convert # {})

C9_Witness ==
    /\ click = "analyze"
    /\ outcome = "stop_error_pairs"
    /\ Len(data) < NRows(df)
    /\ df = read_data(uploaded_file)

\* C10: with at least 3 valid rows and an undefined (NaN) coefficient, as
\* with a constant series under Spearman, the analysis completes with method
\* Spearman, direction negative and strength strong.
C10_NaNCoefficient ==
    /\ (AnalysisRun /\ Len(data) >= 3
          /\ (is_constant(XS(data)) \/ is_constant(YS(data))))
         => corr = CoefNaN
    /\ (AnalysisRun /\ corr = CoefNaN) =>
          /\ outcome = "analyzed"
          /\ "analysis_desc" \in shown
          /\ method = "Spearman"
          /\ direction = "negative"
          /\ strength = "strong"

C10_Witness ==
    /\ outcome = "analyzed"
    /\ is_constant(XS(data)) /\ ~is_constant(YS(data))
    /\ corr = CoefNaN
    /\ strength = "strong"

====
